---- MODULE Spec2Model ----
(***************************************************************************)
(* Matchmaking core of the signaling server (src/app.js): the registry     *)
(* userSockets, the waitingQueue, the currentPartner table, the deferred   *)
(* re-enqueue timers created by handleHangup, and the asynchronous         *)
(* matching pass tryMatch.                                                 *)
(*                                                                         *)
(* Every handler of the server is one action.  A handler runs to its end   *)
(* without interruption (single-threaded event loop); tryMatch, being an   *)
(* async function, runs synchronously up to its first await and the rest   *)
(* of its loop runs later as a continuation (ResumeTryMatch).  Any handler *)
(* may run between the two: more interleavings than the microtask queue    *)
(* allows, none fewer.  Ids are never reused (generateId is random).       *)
(*                                                                         *)
(* What a handler did, in program order, is kept in last.fx: the messages  *)
(* it sent, the queue pushes (with the queue as it was right after the     *)
(* push), the links it made and deleted and the timers it armed.           *)
(*                                                                         *)
(* Specifications:                                                         *)
(*   Spec, FairSpec   the matchmaking handlers: connection, skip, hangup,  *)
(*                    close, timer callback, continuation of tryMatch      *)
(*   MessageSpec      the same with the remaining inbound messages:        *)
(*                    relays, networkQualityUpdate, frames no case handles *)
(*   KeepaliveSpec    the ping/pong sweep and the handlers it meets        *)
(*   PassSpec,        tryMatch alone, one loop iteration per step, called  *)
(*   FairPassSpec     on queues longer than the handlers ever leave        *)
(* A relay that is delivered or dropped, a pong and a sweep change nothing  *)
(* the matchmaking handlers read, and a sweep's terminate() ends in the    *)
(* close handler, which Spec has; a frame that makes the message handler   *)
(* throw ends the process (MessageSpec).                                   *)
(*                                                                         *)
(* Not modelled: the session and call records written to the database      *)
(* (fire-and-forget, never read back), the link's startTime (only used for *)
(* the recorded call duration), logging.  A send that throws inside        *)
(* handleHangup is not caught by the code and ends the process; only the   *)
(* sends inside tryMatch's try block are modelled as able to fail.         *)
(***************************************************************************)
EXTENDS Integers, Sequences, FiniteSets

\* ---------------------------------------------------------------- bounds
MaxIds == 3         \* connections accepted in one run (each gets a fresh id)
MaxTimers == 1      \* deferred re-enqueue timers pending at the same time
MaxPasses == 2      \* tryMatch invocations suspended at their await at once
MaxFails == 1       \* send failures injected into one synchronous run of tryMatch
RandSteps == 6      \* resolution of Math.random(): it is r / RandSteps, r < RandSteps
MaxQueue == 4       \* ids in the queue handed to a matching pass checked on its own

\* ------------------------------------------------------------- constants
None == 0           \* a missing key of userSockets / currentPartner (undefined)
NumSends == 4       \* the four sends of tryMatch's Promise.all, in order

Ids == 1..MaxIds
\* Math.random() lies in [0, 1): its smallest value and its largest one at a
\* resolution of 1/RandSteps (delay is monotone in it, so these give the
\* shortest and the longest delay).
Randoms == {0, RandSteps - 1}

VARIABLES
    userSockets,     \* the set of keys of userSockets (registered ids)
    waitingQueue,    \* sequence of ids
    currentPartner,  \* [Ids -> Ids \cup {None}]
    timers,          \* [Ids -> Nat]: pending setTimeout callbacks per partnerId
    nextId,          \* how many ids generateId has handed out
    passes,          \* tryMatch invocations suspended at their await
    isAlive,         \* the ids whose socket has ws.isAlive = true
    terminated,      \* the ids whose socket ws.terminate() destroyed and whose
                     \* 'close' event has not been handled yet
    last             \* the handler that ran last: op, id, peer (the partner a
                     \* teardown found at its start), fx (what it did, in order)

vars == <<userSockets, waitingQueue, currentPartner, timers, nextId, passes,
          isAlive, terminated, last>>

\* ------------------------------------------------------- effects of a handler
Eff(k, id, type, peer, role, n, q) ==
    [k |-> k, id |-> id, type |-> type, peer |-> peer, role |-> role, n |-> n, q |-> q]

SendHangup(to) == Eff("send", to, "hangup", None, "", 0, <<>>)
SendMatched(to, partnerId, role) == Eff("send", to, "matched", partnerId, role, 0, <<>>)
SendActiveUsers(to, value) == Eff("send", to, "activeUsers", None, "", value, <<>>)
SendConnected(to) == Eff("send", to, "connected", None, "", 0, <<>>)
Push(site, id, q) == Eff("push", id, site, None, "", 0, q)
Link(a, b) == Eff("link", a, "", b, "", 0, <<>>)
Unlink(id) == Eff("unlink", id, "", None, "", 0, <<>>)
SetTimeout(id, delay) == Eff("timer", id, "", None, "", delay, <<>>)
Throw(to) == Eff("throw", to, "", None, "", 0, <<>>)
Call(q) == Eff("call", None, "tryMatch", None, "", 0, q)

\* ------------------------------------------------------------- helpers
includes(q, userId) == \E i \in 1..Len(q) : q[i] = userId

indexOf(q, userId) ==
    IF includes(q, userId)
    THEN CHOOSE i \in 1..Len(q) : q[i] = userId /\ \A j \in 1..(i - 1) : q[j] # userId
    ELSE 0

TimerCount == LET RECURSIVE Sum(_)
                  Sum(S) == IF S = {} THEN 0
                            ELSE LET x == CHOOSE y \in S : TRUE
                                 IN timers[x] + Sum(S \ {x})
              IN Sum(Ids)

\* The state a handler works on: queue, partner table, timers, effects so far,
\* suspended passes.  userSockets is passed alongside (only the close handler
\* changes it, after everything else).
Start == [q |-> waitingQueue, p |-> currentPartner, t |-> timers, fx |-> <<>>, susp |-> passes]

\* delay with the window's width taken as its upper end: random * 10 + 5
delay_WrongWindow(r) == (((r * 10) \div RandSteps) + 5) * 1000

\* Math.floor(Math.random() * (10 - 5 + 1) + 5) * 1000, Math.random() = r / RandSteps
delay(r) == (((r * (10 - 5 + 1)) \div RandSteps) + 5) * 1000

\* matchSends giving the role to the second popped id
matchSends_RoleToSecond(userA, userB, activeUsers) ==
    << SendMatched(userA, userB, ""),
       SendMatched(userB, userA, "caller"),
       SendActiveUsers(userA, activeUsers),
       SendActiveUsers(userB, activeUsers) >>

\* The sends of Promise.all([...]) in evaluation order.
matchSends(userA, userB, activeUsers) ==
    << SendMatched(userA, userB, "caller"),
       SendMatched(userB, userA, ""),
       SendActiveUsers(userA, activeUsers),
       SendActiveUsers(userB, activeUsers) >>

\* ------------------------------------------------------------- tryMatch
\* One iteration of the while loop, entered with at least two ids waiting: the
\* set of its outcomes.  An outcome is the state it leaves, where control goes
\* (next = "loop": back to the loop condition, "await": suspended at the await
\* with all four sends done, susp + 1) and the send failures still to inject.
\* At a pairing attempt the sends either all succeed or the f-th one throws.
\* (s ranges over the singleton {s0}: the argument is evaluated once.)

\* The invalid-candidate branch putting the still-valid id back at the head.
iteration_PushesFront(s0, sockets, fails) ==
  UNION {
    LET userA == s.q[1]
        userB == s.q[2]
        rest == SubSeq(s.q, 3, Len(s.q))
        validA == userA \in sockets /\ s.p[userA] = None
        validB == userB \in sockets /\ s.p[userB] = None
        qa == IF validA THEN <<userA>> \o rest ELSE rest
        fa == IF validA THEN <<Push("invalid", userA, qa)>> ELSE <<>>
        qb == IF validB THEN <<userB>> \o qa ELSE qa
        fb == IF validB THEN <<Push("invalid", userB, qb)>> ELSE <<>>
        linked == [s.p EXCEPT ![userA] = userB, ![userB] = userA]
        links == <<Link(userA, userB), Link(userB, userA)>>
        sends == matchSends(userA, userB, Cardinality(sockets))
        q1 == Append(rest, userA)
        q2 == Append(q1, userB)
        caught(f) == [s EXCEPT !.q = q2, !.p = linked,
                               !.fx = s.fx \o links \o SubSeq(sends, 1, f - 1)
                                      \o <<Throw(sends[f].id),
                                           Push("catch", userA, q1),
                                           Push("catch", userB, q2)>>]
    IN IF ~validA \/ ~validB
       THEN {[s |-> [s EXCEPT !.q = qb, !.fx = s.fx \o fa \o fb],
              next |-> "loop", fails |-> fails]}
       ELSE {[s |-> [s EXCEPT !.q = rest, !.p = linked, !.fx = s.fx \o links \o sends,
                               !.susp = s.susp + 1],
              next |-> "await", fails |-> fails]}
            \cup (IF fails > 0
                  THEN {[s |-> caught(f), next |-> "loop", fails |-> fails - 1]
                        : f \in 1..NumSends}
                  ELSE {})
    : s \in {s0} }

\* The validity test looking at the registry only, not at existing links.
iteration_IgnoresExistingLinks(s0, sockets, fails) ==
  UNION {
    LET userA == s.q[1]
        userB == s.q[2]
        rest == SubSeq(s.q, 3, Len(s.q))
        validA == userA \in sockets
        validB == userB \in sockets
        qa == IF validA THEN Append(rest, userA) ELSE rest
        fa == IF validA THEN <<Push("invalid", userA, qa)>> ELSE <<>>
        qb == IF validB THEN Append(qa, userB) ELSE qa
        fb == IF validB THEN <<Push("invalid", userB, qb)>> ELSE <<>>
        linked == [s.p EXCEPT ![userA] = userB, ![userB] = userA]
        links == <<Link(userA, userB), Link(userB, userA)>>
        sends == matchSends(userA, userB, Cardinality(sockets))
        q1 == Append(rest, userA)
        q2 == Append(q1, userB)
        caught(f) == [s EXCEPT !.q = q2, !.p = linked,
                               !.fx = s.fx \o links \o SubSeq(sends, 1, f - 1)
                                      \o <<Throw(sends[f].id),
                                           Push("catch", userA, q1),
                                           Push("catch", userB, q2)>>]
    IN IF ~validA \/ ~validB
       THEN {[s |-> [s EXCEPT !.q = qb, !.fx = s.fx \o fa \o fb],
              next |-> "loop", fails |-> fails]}
       ELSE {[s |-> [s EXCEPT !.q = rest, !.p = linked, !.fx = s.fx \o links \o sends,
                               !.susp = s.susp + 1],
              next |-> "await", fails |-> fails]}
            \cup (IF fails > 0
                  THEN {[s |-> caught(f), next |-> "loop", fails |-> fails - 1]
                        : f \in 1..NumSends}
                  ELSE {})
    : s \in {s0} }

\* The catch branch deleting the two links before it pushes the ids back.
iteration_CatchUnlinks(s0, sockets, fails) ==
  UNION {
    LET userA == s.q[1]
        userB == s.q[2]
        rest == SubSeq(s.q, 3, Len(s.q))
        validA == userA \in sockets /\ s.p[userA] = None
        validB == userB \in sockets /\ s.p[userB] = None
        qa == IF validA THEN Append(rest, userA) ELSE rest
        fa == IF validA THEN <<Push("invalid", userA, qa)>> ELSE <<>>
        qb == IF validB THEN Append(qa, userB) ELSE qa
        fb == IF validB THEN <<Push("invalid", userB, qb)>> ELSE <<>>
        linked == [s.p EXCEPT ![userA] = userB, ![userB] = userA]
        links == <<Link(userA, userB), Link(userB, userA)>>
        sends == matchSends(userA, userB, Cardinality(sockets))
        q1 == Append(rest, userA)
        q2 == Append(q1, userB)
        caught(f) == [s EXCEPT !.q = q2,
                               !.fx = s.fx \o links \o SubSeq(sends, 1, f - 1)
                                      \o <<Throw(sends[f].id),
                                           Unlink(userA), Unlink(userB),
                                           Push("catch", userA, q1),
                                           Push("catch", userB, q2)>>]
    IN IF ~validA \/ ~validB
       THEN {[s |-> [s EXCEPT !.q = qb, !.fx = s.fx \o fa \o fb],
              next |-> "loop", fails |-> fails]}
       ELSE {[s |-> [s EXCEPT !.q = rest, !.p = linked, !.fx = s.fx \o links \o sends,
                               !.susp = s.susp + 1],
              next |-> "await", fails |-> fails]}
            \cup (IF fails > 0
                  THEN {[s |-> caught(f), next |-> "loop", fails |-> fails - 1]
                        : f \in 1..NumSends}
                  ELSE {})
    : s \in {s0} }

iteration(s0, sockets, fails) ==
  UNION {
    LET userA == s.q[1]
        userB == s.q[2]
        rest == SubSeq(s.q, 3, Len(s.q))
        validA == userA \in sockets /\ s.p[userA] = None
        validB == userB \in sockets /\ s.p[userB] = None
    IN IF userA \notin sockets \/ userB \notin sockets
          \/ s.p[userA] # None \/ s.p[userB] # None
       THEN
         LET qa == IF validA THEN Append(rest, userA) ELSE rest
             fa == IF validA THEN <<Push("invalid", userA, qa)>> ELSE <<>>
             qb == IF validB THEN Append(qa, userB) ELSE qa
             fb == IF validB THEN <<Push("invalid", userB, qb)>> ELSE <<>>
         IN {[s |-> [s EXCEPT !.q = qb, !.fx = s.fx \o fa \o fb],
              next |-> "loop", fails |-> fails]}
       ELSE
         LET linked == [s.p EXCEPT ![userA] = userB, ![userB] = userA]
             links == <<Link(userA, userB), Link(userB, userA)>>
             sends == matchSends(userA, userB, Cardinality(sockets))
             awaited == [s EXCEPT !.q = rest, !.p = linked,
                                  !.fx = s.fx \o links \o sends,
                                  !.susp = s.susp + 1]
             q1 == Append(rest, userA)
             q2 == Append(q1, userB)
             caught(f) == [s EXCEPT !.q = q2, !.p = linked,
                                    !.fx = s.fx \o links \o SubSeq(sends, 1, f - 1)
                                           \o <<Throw(sends[f].id),
                                                Push("catch", userA, q1),
                                                Push("catch", userB, q2)>>]
         IN {[s |-> awaited, next |-> "await", fails |-> fails]}
            \cup (IF fails > 0
                  THEN {[s |-> caught(f), next |-> "loop", fails |-> fails - 1]
                        : f \in 1..NumSends}
                  ELSE {})
    : s \in {s0} }

\* One synchronous run of the while loop, from its condition: it ends when
\* fewer than two ids wait, or when an iteration reaches the await (the rest
\* of the loop is a continuation).  The result is the set of states the run
\* can end in, with at most `fails` send failures in one run.
RECURSIVE tryMatch(_, _, _)
tryMatch(s0, sockets, fails) ==
  UNION {
    IF Len(s.q) < 2 THEN {s}
    ELSE UNION { IF o.next = "await" THEN {o.s} ELSE tryMatch(o.s, sockets, o.fails)
                 : o \in iteration(s, sockets, fails) }
    : s \in {s0} }

\* ------------------------------------------------------------- queue helpers
\* addUserToQueue without its includes test
addUserToQueue_NoIncludesCheck(s, sockets, userId) ==
    LET q1 == Append(s.q, userId)
    IN tryMatch([s EXCEPT !.q = q1, !.fx = s.fx \o <<Push("enqueue", userId, q1)>>],
                sockets, MaxFails)

\* addUserToQueue pushing the id without starting a matching pass
addUserToQueue_NoTryMatch(s, sockets, userId) ==
    IF ~includes(s.q, userId)
    THEN LET q1 == Append(s.q, userId)
         IN {[s EXCEPT !.q = q1, !.fx = s.fx \o <<Push("enqueue", userId, q1)>>]}
    ELSE {s}

addUserToQueue(s, sockets, userId) ==
    IF ~includes(s.q, userId)
    THEN LET q1 == Append(s.q, userId)
         IN tryMatch([s EXCEPT !.q = q1, !.fx = s.fx \o <<Push("enqueue", userId, q1)>>],
                     sockets, MaxFails)
    ELSE {s}

\* removeFromQueue testing idx > 0, which misses the head of the queue
removeFromQueue_MissesHead(s, userId) ==
    LET idx == indexOf(s.q, userId)
    IN IF idx > 1
       THEN [s EXCEPT !.q = SubSeq(s.q, 1, idx - 1) \o SubSeq(s.q, idx + 1, Len(s.q))]
       ELSE s

removeFromQueue(s, userId) ==
    LET idx == indexOf(s.q, userId)
    IN IF idx >= 1
       THEN [s EXCEPT !.q = SubSeq(s.q, 1, idx - 1) \o SubSeq(s.q, idx + 1, Len(s.q))]
       ELSE s

\* ------------------------------------------------------------- teardown
\* handleHangup deleting only the caller's own entry
handleHangup_OneSided(s, sockets, userId) ==
    LET partnerId == s.p[userId]
    IN IF partnerId # None
       THEN LET sent == IF partnerId \in sockets THEN <<SendHangup(partnerId)>> ELSE <<>>
            IN {[s EXCEPT !.p = [s.p EXCEPT ![userId] = None],
                          !.t = [s.t EXCEPT ![partnerId] = @ + 1],
                          !.fx = s.fx \o sent \o <<Unlink(userId),
                                                   SetTimeout(partnerId, delay(r))>>]
                : r \in Randoms}
       ELSE {s}

\* handleHangup putting the partner back into the queue at once, without setTimeout
handleHangup_NoDelay(s, sockets, userId) ==
    LET partnerId == s.p[userId]
    IN IF partnerId # None
       THEN LET sent == IF partnerId \in sockets THEN <<SendHangup(partnerId)>> ELSE <<>>
                s1 == [s EXCEPT !.p = [s.p EXCEPT ![partnerId] = None, ![userId] = None],
                                !.fx = s.fx \o sent \o <<Unlink(partnerId), Unlink(userId)>>]
            IN addUserToQueue(s1, sockets, partnerId)
       ELSE {s}

\* handleHangup deleting the links first and then notifying both ends
handleHangup_NotifiesBothLate(s, sockets, userId) ==
    LET partnerId == s.p[userId]
    IN IF partnerId # None
       THEN LET sent == IF partnerId \in sockets
                        THEN <<SendHangup(partnerId), SendHangup(userId)>> ELSE <<>>
            IN {[s EXCEPT !.p = [s.p EXCEPT ![partnerId] = None, ![userId] = None],
                          !.t = [s.t EXCEPT ![partnerId] = @ + 1],
                          !.fx = s.fx \o <<Unlink(partnerId), Unlink(userId)>> \o sent
                                      \o <<SetTimeout(partnerId, delay(r))>>]
                : r \in Randoms}
       ELSE {s}

\* handleHangup telling an id without partner that its call has ended
handleHangup_NotifiesUnpaired(s, sockets, userId) ==
    LET partnerId == s.p[userId]
    IN IF partnerId # None
       THEN LET sent == IF partnerId \in sockets THEN <<SendHangup(partnerId)>> ELSE <<>>
            IN {[s EXCEPT !.p = [s.p EXCEPT ![partnerId] = None, ![userId] = None],
                          !.t = [s.t EXCEPT ![partnerId] = @ + 1],
                          !.fx = s.fx \o sent \o <<Unlink(partnerId), Unlink(userId),
                                                   SetTimeout(partnerId, delay(r))>>]
                : r \in Randoms}
       ELSE {[s EXCEPT !.fx = s.fx \o <<SendHangup(userId)>>]}

\* The set of outcomes: one per value of Math.random() when a timer is armed.
handleHangup(s, sockets, userId) ==
    LET partnerId == s.p[userId]
    IN IF partnerId # None
       THEN LET sent == IF partnerId \in sockets THEN <<SendHangup(partnerId)>> ELSE <<>>
            IN {[s EXCEPT !.p = [s.p EXCEPT ![partnerId] = None, ![userId] = None],
                          !.t = [s.t EXCEPT ![partnerId] = @ + 1],
                          !.fx = s.fx \o sent \o <<Unlink(partnerId), Unlink(userId),
                                                   SetTimeout(partnerId, delay(r))>>]
                : r \in Randoms}
       ELSE {s}

\* handleSkip that forgets to enqueue the skipping id
handleSkip_NoEnqueue(s, sockets, userId) == handleHangup(s, sockets, userId)

handleSkip(s, sockets, userId) ==
    UNION {addUserToQueue(h, sockets, userId) : h \in handleHangup(s, sockets, userId)}

\* ------------------------------------------------------------- actions
Commit(s, op, id) ==
    /\ s.susp <= MaxPasses
    /\ waitingQueue' = s.q
    /\ currentPartner' = s.p
    /\ timers' = s.t
    /\ passes' = s.susp
    /\ last' = [op |-> op, id |-> id,
                peer |-> IF op \in {"skip", "hangup", "close"} THEN currentPartner[id] ELSE None,
                fx |-> s.fx]

\* userId's socket is open: its frames and pongs still arrive.
Open(userId) == userId \in userSockets /\ userId \notin terminated

\* A teardown arms one timer: keep the number of pending timers bounded.
TimerRoom(userId) == currentPartner[userId] # None => TimerCount < MaxTimers

Init ==
    /\ userSockets = {}
    /\ waitingQueue = <<>>
    /\ currentPartner = [i \in Ids |-> None]
    /\ timers = [i \in Ids |-> 0]
    /\ nextId = 0
    /\ passes = 0
    /\ isAlive = {}
    /\ terminated = {}
    /\ last = [op |-> "init", id |-> 1, peer |-> None, fx |-> <<>>]

\* wss.on('connection')
Connect ==
    /\ nextId < MaxIds
    /\ LET userId == nextId + 1
           sockets == userSockets \cup {userId}
           hello == <<SendActiveUsers(userId, Cardinality(sockets)), SendConnected(userId)>>
       IN /\ \E s \in addUserToQueue(Start, sockets, userId) :
                Commit([s EXCEPT !.fx = s.fx \o hello], "connect", userId)
          /\ userSockets' = sockets
          /\ nextId' = userId
          /\ isAlive' = isAlive \cup {userId}      \* ws.isAlive = true
          /\ UNCHANGED terminated

\* ws.on('message'), case 'skip'
Skip(userId) ==
    /\ Open(userId)
    /\ TimerRoom(userId)
    /\ \E s \in handleSkip(Start, userSockets, userId) : Commit(s, "skip", userId)
    /\ UNCHANGED <<userSockets, nextId, isAlive, terminated>>

\* ws.on('message'), case 'hangup'
Hangup(userId) ==
    /\ Open(userId)
    /\ TimerRoom(userId)
    /\ \E s \in handleHangup(Start, userSockets, userId) : Commit(s, "hangup", userId)
    /\ UNCHANGED <<userSockets, nextId, isAlive, terminated>>

\* ws.on('close')
Close(userId) ==
    /\ userId \in userSockets
    /\ TimerRoom(userId)
    /\ \E h \in handleHangup(Start, userSockets, userId) :
         Commit(removeFromQueue(h, userId), "close", userId)
    /\ userSockets' = userSockets \ {userId}
    /\ isAlive' = isAlive \ {userId}            \* the socket leaves wss.clients
    /\ terminated' = terminated \ {userId}
    /\ UNCHANGED nextId

\* the setTimeout callback of handleHangup
FireTimer(partnerId) ==
    /\ timers[partnerId] > 0
    /\ timers' = [timers EXCEPT ![partnerId] = @ - 1]    \* the callback is no longer pending
    /\ LET s0 == [Start EXCEPT !.t = [timers EXCEPT ![partnerId] = @ - 1]]
       IN \E s \in addUserToQueue(s0, userSockets, partnerId) : Commit(s, "timer", partnerId)
    /\ UNCHANGED <<userSockets, nextId, isAlive, terminated>>

\* the continuation of a tryMatch that was suspended at its await
ResumeTryMatch ==
    /\ passes > 0
    /\ UNCHANGED <<userSockets, nextId, timers, isAlive, terminated>>
    /\ \E s \in tryMatch([Start EXCEPT !.susp = passes - 1], userSockets, MaxFails) :
         Commit(s, "resume", 1)

Next ==
    \/ Connect
    \/ \E userId \in Ids : Skip(userId)
    \/ \E userId \in Ids : Hangup(userId)
    \/ \E userId \in Ids : Close(userId)
    \/ \E partnerId \in Ids : FireTimer(partnerId)
    \/ ResumeTryMatch

Spec == Init /\ [][Next]_vars

\* Due timers are run by every turn of the event loop whatever else is pending
\* (strong fairness), and a suspended async function is always resumed.
FairSpec ==
    /\ Spec
    /\ \A partnerId \in Ids : SF_vars(FireTimer(partnerId))
    /\ WF_vars(ResumeTryMatch)

\* ------------------------------------------ the other inbound messages
\* ws.on('message') for the frames that are not skip or hangup.  A parsed
\* message is a record of the fields the handler can see; a field the client
\* left out is None (to, from) or "" (sdp, quality).  `to` is any key the
\* client likes: an id, or a name every JavaScript object inherits
\* ("constructor", "toString", ...), for which userSockets[data.to] is a
\* function of Object.prototype and not a socket.
Inherited == MaxIds + 1
RelayTypes == {"offer", "answer", "candidate"}
Keys == Ids \cup {None, Inherited}

RelayData ==
    [type : RelayTypes, to : Keys, from : Ids \cup {None},
     sdp : {"v=0"}, quality : {""}]

QualityData ==
    [type : {"networkQualityUpdate"}, to : Keys, from : Ids \cup {None},
     sdp : {""}, quality : {"poor"}]

\* frames that reach no case of the switch: not JSON, the JSON text null, an
\* object without type, an object with a type the switch does not know
OtherFrames == {"{", "null", "{}", "{\"type\":\"mute\"}"}

\* data.to && userSockets[data.to]
lookup(sockets, key) ==
    IF key = None THEN "undefined"
    ELSE IF key \in sockets THEN "socket"
    ELSE IF key = Inherited THEN "inherited"
    ELSE "undefined"

Deliver(to, msg) == [k |-> "relay", id |-> to, msg |-> msg]

\* The handler returned: nothing but `last` changes.
Handled(op, userId, msg, fx) ==
    /\ last' = [op |-> op, id |-> userId, peer |-> None, fx |-> fx,
                msg |-> msg, threw |-> FALSE]
    /\ UNCHANGED <<userSockets, waitingQueue, currentPartner, timers, nextId, passes,
                   isAlive, terminated>>

\* The handler threw a TypeError nothing catches: the process ends, every
\* connection is closed and the module state is gone with it.  (Whatever
\* follows is a new process; it hands out other ids.)
Uncaught(op, userId, msg) ==
    /\ last' = [op |-> op, id |-> userId, peer |-> None, fx |-> <<>>,
                msg |-> msg, threw |-> TRUE]
    /\ userSockets' = {}
    /\ waitingQueue' = <<>>
    /\ currentPartner' = [i \in Ids |-> None]
    /\ timers' = [i \in Ids |-> 0]
    /\ passes' = 0
    /\ isAlive' = {}
    /\ terminated' = {}
    /\ UNCHANGED nextId

\* case 'offer': case 'answer': case 'candidate':
Relay(userId, data) ==
    /\ Open(userId)
    /\ LET found == lookup(userSockets, data.to)
       IN IF found = "socket"
          THEN Handled("relay", userId, data,
                       <<Deliver(data.to, [data EXCEPT !.from = userId])>>)
          ELSE IF found = "inherited"        \* .send is not a function
          THEN Uncaught("relay", userId, data)
          ELSE Handled("relay", userId, data, <<>>)

\* case 'networkQualityUpdate':
NetworkQualityUpdate(userId, data) ==
    /\ Open(userId)
    /\ LET found == lookup(userSockets, data.to)
           sent == [type |-> "networkQualityUpdate", to |-> None, from |-> None,
                    sdp |-> "", quality |-> data.quality]
       IN IF found = "socket"
          THEN Handled("quality", userId, data, <<Deliver(data.to, sent)>>)
          ELSE IF found = "inherited"
          THEN Uncaught("quality", userId, data)
          ELSE Handled("quality", userId, data, <<>>)

\* JSON.parse throws (caught: return), or no case of the switch matches; for
\* the text null, JSON.parse returns null and data.type throws.
Unhandled(userId, frame) ==
    /\ Open(userId)
    /\ IF frame = "{" THEN Handled("unhandled", userId, frame, <<>>)
       ELSE IF frame = "null" THEN Uncaught("unhandled", userId, frame)
       ELSE Handled("unhandled", userId, frame, <<>>)

MessageNext ==
    \/ Next
    \/ \E userId \in Ids : \E data \in RelayData : Relay(userId, data)
    \/ \E userId \in Ids : \E data \in QualityData : NetworkQualityUpdate(userId, data)
    \/ \E userId \in Ids : \E frame \in OtherFrames : Unhandled(userId, frame)

MessageSpec == Init /\ [][MessageNext]_vars

\* ------------------------------------------------------------ keepalive
Ping(to) == [k |-> "ping", id |-> to]
Terminate(id) == [k |-> "terminate", id |-> id]

\* wss.clients in iteration order (the order of connection): the ids of S, ascending
RECURSIVE clients(_)
clients(S) ==
    IF S = {} THEN <<>>
    ELSE LET x == CHOOSE y \in S : \A z \in S : y <= z
         IN <<x>> \o clients(S \ {x})

\* the sweep probing a socket that did not answer once more instead of ending it
sweep_NeverTerminates(sockets, alive) ==
    [i \in 1..Cardinality(sockets) |-> Ping(clients(sockets)[i])]

\* what the interval callback does to each client, in order
sweep(sockets, alive) ==
    [i \in 1..Cardinality(sockets) |->
        LET ws == clients(sockets)[i]
        IN IF ws \notin alive THEN Terminate(ws) ELSE Ping(ws)]

\* ws.on('pong')
Pong(userId) ==
    /\ Open(userId)
    /\ isAlive' = isAlive \cup {userId}
    /\ last' = [op |-> "pong", id |-> userId, peer |-> None, fx |-> <<>>]
    /\ UNCHANGED <<userSockets, waitingQueue, currentPartner, timers, nextId, passes,
                   terminated>>

\* the setInterval callback: every socket not alive is terminated (its 'close'
\* event follows, see Close), every other one is marked not alive and pinged
Sweep ==
    /\ LET fx == sweep(userSockets, isAlive)
       IN /\ isAlive' = {}
          /\ terminated' = terminated \cup
                 {fx[i].id : i \in {j \in 1..Len(fx) : fx[j].k = "terminate"}}
          /\ last' = [op |-> "sweep", id |-> 1, peer |-> None, fx |-> fx]
    /\ UNCHANGED <<userSockets, waitingQueue, currentPartner, timers, nextId, passes>>

\* The keepalive meets the matchmaking in two handlers only: the connection
\* handler, which creates the flag, and the close handler, which a terminated
\* socket ends in.  The client's messages neither read nor write the flag and
\* are left out here; timers and continuations stay, as teardowns arm them.
KeepaliveNext ==
    \/ Connect
    \/ \E userId \in Ids : Pong(userId)
    \/ Sweep
    \/ \E userId \in Ids : Close(userId)
    \/ \E partnerId \in Ids : FireTimer(partnerId)
    \/ ResumeTryMatch

KeepaliveSpec == Init /\ [][KeepaliveNext]_vars

\* ------------------------------------------------- the matching pass alone
\* tryMatch as a function of the state it is called in.  The handlers only
\* ever call it with at most two ids waiting, so its behaviour on longer
\* queues, and on queues holding unregistered or paired ids, is examined
\* here: the pass is called once on a drawn state and runs one loop iteration
\* per step, with no handler in between.  The state drawn is one the code's
\* own bookkeeping allows: a queue without duplicates (ids only matter up to
\* renaming, so it is 1, 2, ..., n), any registry, any symmetric partner
\* table.  A send may throw in every iteration.  last.fx accumulates the
\* whole pass, starting with the queue it was called with.
PassIds == 1..MaxQueue

RECURSIVE Prefix(_)
Prefix(n) == IF n = 0 THEN <<>> ELSE Append(Prefix(n - 1), n)

PassInit ==
    /\ \E n \in 0..MaxQueue : waitingQueue = Prefix(n)
    /\ userSockets \in SUBSET PassIds
    /\ currentPartner \in [PassIds -> PassIds \cup {None}]
    /\ \A a \in PassIds :
         /\ currentPartner[a] # a
         /\ currentPartner[a] # None => currentPartner[currentPartner[a]] = a
    /\ timers = [i \in PassIds |-> 0]
    /\ nextId = MaxQueue
    /\ passes = 0
    /\ isAlive = userSockets
    /\ terminated = {}
    /\ last = [op |-> "tryMatch", id |-> 1, peer |-> None, fx |-> <<Call(waitingQueue)>>]

\* the pass is at its loop condition
Running == last.op \in {"tryMatch", "iteration", "continue"}

\* while (waitingQueue.length >= 2) { ... }: one turn of the loop
Iterate ==
    /\ Running
    /\ Len(waitingQueue) >= 2
    /\ \E o \in iteration([Start EXCEPT !.fx = last.fx], userSockets, 1) :
         Commit(o.s, IF o.next = "await" THEN "await" ELSE "iteration", 1)
    /\ UNCHANGED <<userSockets, nextId, isAlive, terminated>>

\* the loop condition is false: the async function returns
Return ==
    /\ Running
    /\ Len(waitingQueue) < 2
    /\ Commit([Start EXCEPT !.fx = last.fx], "return", 1)
    /\ UNCHANGED <<userSockets, nextId, isAlive, terminated>>

\* the awaited Promise.all has settled: back to the loop condition
Continue ==
    /\ last.op = "await"
    /\ passes > 0
    /\ Commit([Start EXCEPT !.fx = last.fx, !.susp = passes - 1], "continue", 1)
    /\ UNCHANGED <<userSockets, nextId, isAlive, terminated>>

PassNext ==
    \/ Iterate
    \/ Return
    \/ Continue

PassSpec == PassInit /\ [][PassNext]_vars

\* A running function executes its next statement, and a settled await is
\* resumed by the microtask queue.
FairPassSpec ==
    /\ PassSpec
    /\ WF_vars(Iterate)
    /\ WF_vars(Return)
    /\ WF_vars(Continue)

\* ================================================================ properties
InQueue(userId) == includes(waitingQueue, userId)
NoDup(q) == \A i, j \in 1..Len(q) : i # j => q[i] # q[j]
FxIdx == 1..Len(last.fx)
Gone == (1..nextId) \ userSockets
Teardown == {"skip", "hangup", "close"}
HangupSends == {i \in FxIdx : last.fx[i].k = "send" /\ last.fx[i].type = "hangup"}

TypeOK ==
    /\ userSockets \subseteq 1..nextId
    /\ nextId \in 0..MaxIds
    /\ waitingQueue \in Seq(Ids)
    /\ currentPartner \in [Ids -> Ids \cup {None}]
    /\ timers \in [Ids -> 0..MaxTimers]
    /\ passes \in 0..MaxPasses
    /\ isAlive \subseteq userSockets
    /\ terminated \subseteq userSockets \ isAlive

\* C1: the waiting queue never holds an id twice, neither between handlers nor
\* right after any push a handler makes (addUserToQueue's push, the push-backs
\* of tryMatch's invalid-candidate branch and of its catch branch).
C1_QueueHasNoDuplicates ==
    /\ NoDup(waitingQueue)
    /\ \A i \in FxIdx : last.fx[i].k = "push" => NoDup(last.fx[i].q)

\* a matching pass whose send threw has pushed both ids back: two ids wait
C1_Witness ==
    \E i \in FxIdx : /\ last.fx[i].k = "push"
                     /\ last.fx[i].type = "catch"
                     /\ Len(last.fx[i].q) >= 2

\* C2: the partner table is symmetric: currentPartner[a] = b iff currentPartner[b] = a.
C2_PartnerTableSymmetric ==
    \A a, b \in Ids : (currentPartner[a] = b) <=> (currentPartner[b] = a)

\* a skip tore a pair down and the skipping id was paired again at once
C2_Witness ==
    /\ last.op = "skip"
    /\ last.peer # None
    /\ currentPartner[last.id] # None
    /\ currentPartner[last.id] # last.peer
    /\ currentPartner[currentPartner[last.id]] = last.id

\* C3: no id is in the waiting queue while it holds a partner link.
C3_NeverQueuedAndPaired ==
    \A a \in Ids : InQueue(a) => currentPartner[a] = None

\* C4: every id in the waiting queue is registered.
C4_QueuedIdsAreRegistered ==
    \A i \in 1..Len(waitingQueue) : waitingQueue[i] \in userSockets

\* C5: when a send throws while a pair is being notified, both ids are pushed
\* back and, once the handler is done, they no longer hold links to each other.
C5_FailedPairingIsUndone ==
    \A i \in FxIdx :
        last.fx[i].k = "throw" =>
            LET a == last.fx[i + 1].id
                b == last.fx[i + 2].id
            IN /\ last.fx[i + 1].type = "catch"
               /\ last.fx[i + 2].type = "catch"
               /\ currentPartner[a] # b
               /\ currentPartner[b] # a

\* C6: a skip by A while paired with B deletes B's and A's links, arms B's
\* timer and then enqueues A in the same handler (A is waiting or already
\* paired again when the handler returns); the handler never pushes B.
C6_SkipRequeuesSelfAtOnce ==
    [][ (last'.op = "skip" /\ last'.peer # None) =>
          LET A == last'.id
              B == last'.peer
              fx == last'.fx
              k == IF B \in userSockets THEN 1 ELSE 0
          IN /\ B = currentPartner[A]
             /\ Len(fx) >= k + 3
             /\ fx[k + 1] = Unlink(B)
             /\ fx[k + 2] = Unlink(A)
             /\ fx[k + 3].k = "timer" /\ fx[k + 3].id = B
             /\ \/ InQueue(A)
                \/ /\ Len(fx) >= k + 4
                   /\ fx[k + 4].k = "push" /\ fx[k + 4].type = "enqueue"
                   /\ fx[k + 4].id = A
                   /\ includes(fx[k + 4].q, A)
             /\ includes(waitingQueue', A) \/ currentPartner'[A] # None
             /\ \A i \in 1..Len(fx) :
                  (fx[i].k = "link" /\ fx[i].id \in {A, B}) => i > k + 3
             /\ currentPartner'[B] # None =>
                  \E i \in 1..Len(fx) : fx[i].k = "link" /\ fx[i].id = B
             /\ ~\E i \in 1..Len(fx) :
                  fx[i].k = "push" /\ fx[i].type = "enqueue" /\ fx[i].id = B
             /\ includes(waitingQueue', B) => InQueue(B)
             /\ timers'[B] = timers[B] + 1
      ]_vars

\* after a skip that ended a pairing: the skipper waits, its former partner does not
C6_Witness ==
    /\ last.op = "skip"
    /\ last.peer # None
    /\ InQueue(last.id)
    /\ ~InQueue(last.peer)
    /\ currentPartner[last.peer] = None
    /\ timers[last.peer] > 0

\* C7: a hangup by A while paired with B deletes both links in the handler,
\* leaves the queue as it was (neither A nor B is pushed) and arms B's timer;
\* and an id only ever enters the queue in its own connect, its own skip or
\* the firing of a timer armed for it.
C7_HangupUnlinksBothRequeuesNone ==
    [][ /\ (last'.op = "hangup" /\ last'.peer # None) =>
             LET A == last'.id
                 B == last'.peer
             IN /\ B = currentPartner[A]
                /\ currentPartner'[A] = None
                /\ currentPartner'[B] = None
                /\ waitingQueue' = waitingQueue
                /\ ~\E i \in 1..Len(last'.fx) : last'.fx[i].k \in {"push", "link"}
                /\ timers'[B] = timers[B] + 1
        /\ \A x \in Ids :
             (~InQueue(x) /\ includes(waitingQueue', x)) =>
                 /\ last'.op \in {"connect", "skip", "timer"}
                 /\ last'.id = x
      ]_vars

\* after a hangup that ended a pairing: nobody was queued, the partner's timer is pending
C7_Witness ==
    /\ last.op = "hangup"
    /\ last.peer # None
    /\ ~InQueue(last.id)
    /\ ~InQueue(last.peer)
    /\ timers[last.peer] > 0

\* C8: a teardown by A of its pairing with B sends exactly one hangup message,
\* to B, when B is registered (none when it is not), before either link is
\* deleted; A is sent none, and no other handler sends a hangup message.
C8_OneHangupToPeerBeforeUnlink ==
    /\ HangupSends # {} => (last.op \in Teardown /\ last.peer # None)
    /\ (last.op \in Teardown /\ last.peer # None) =>
          /\ \A i \in HangupSends : last.fx[i].id = last.peer /\ last.fx[i].id # last.id
          /\ Cardinality(HangupSends) = IF last.peer \in userSockets THEN 1 ELSE 0
          /\ \A i \in HangupSends : \A j \in FxIdx : last.fx[j].k = "unlink" => i < j
          /\ \E j \in FxIdx : last.fx[j] = Unlink(last.peer)
          /\ \E j \in FxIdx : last.fx[j] = Unlink(last.id)

\* a disconnect of a paired id notified the partner first
C8_Witness ==
    /\ last.op = "close"
    /\ last.peer # None
    /\ last.peer \in userSockets
    /\ last.fx[1] = SendHangup(last.peer)
    /\ last.fx[2] = Unlink(last.peer)

\* C9: when the close handler of A returns, A is not registered, not in the
\* queue and not in the partner table, and no id holds a link to A; and a
\* disconnected id is never registered or linked again.
C9_DisconnectRemovesEverywhere ==
    /\ \A a \in Gone : /\ currentPartner[a] = None
                       /\ \A b \in Ids : currentPartner[b] # a
    /\ last.op = "close" => (last.id \in Gone /\ ~InQueue(last.id))

\* a paired id disconnected while a third id was waiting
C9_Witness ==
    /\ last.op = "close"
    /\ last.peer # None
    /\ last.peer \in userSockets
    /\ Len(waitingQueue) = 1

\* C10: every delay handed to setTimeout lies in 5000..10000 ms; when the
\* timer callback for B has run and B is registered, B is in the queue or
\* paired; and a timer armed for B does not stay pending for ever: again and
\* again either no timer is pending for B or B's callback has just run.
C10_ReenqueueAfterBoundedDelay ==
    /\ [](\A i \in FxIdx : last.fx[i].k = "timer" =>
             (last.fx[i].n >= 5 * 1000 /\ last.fx[i].n <= 10 * 1000))
    /\ [](last.op = "timer" =>
             (last.id \in userSockets =>
                 (InQueue(last.id) \/ currentPartner[last.id] # None)))
    /\ \A b \in Ids : []<>(timers[b] = 0 \/ (last.op = "timer" /\ last.id = b))

\* B's timer fired while B was registered and unpaired: B waits in the queue
C10_Witness ==
    /\ last.op = "timer"
    /\ last.id \in userSockets
    /\ InQueue(last.id)
    /\ currentPartner[last.id] = None
    /\ \E i \in FxIdx : last.fx[i].k = "push" /\ last.fx[i].id = last.id

\* ------------------------------------------------ claims on the pass alone
\* (under PassSpec last.fx is the log of the whole pass)
CalledWith == last.fx[1].q
LinkIdx == {j \in FxIdx : last.fx[j].k = "link"}
\* where the first of the two links of a pair sits in the log
PairIdx == {j \in LinkIdx : j + 1 \in LinkIdx}
Thrown == {j \in FxIdx : last.fx[j].k = "throw"}
\* x was registered and unlinked when the pass was called (the pass never
\* deletes a link, and it only links ids that hold none)
ValidAtCall(x) ==
    /\ x \in userSockets
    /\ currentPartner[x] = None \/ \E j \in LinkIdx : last.fx[j].id = x
AllValidAtCall == \A i \in 1..Len(CalledWith) : ValidAtCall(CalledWith[i])

\* C11: called with a queue of valid ids q, the pass links q[1] with q[2], then
\* q[3] with q[4], and so on in queue order, one pair for every two ids; of
\* each pair the first popped id is sent matched with role "caller" and the
\* other id as partnerId, the second is sent matched without a role and the
\* first id as partnerId (up to the send that throws, if one does).
C11_PairsInFifoOrderCallerFirst ==
    AllValidAtCall =>
        /\ \A j \in PairIdx :
             LET m == Cardinality({i \in PairIdx : i < j})
                 A == CalledWith[2 * m + 1]
                 B == CalledWith[2 * m + 2]
                 toA == last.fx[j + 2]
                 toB == last.fx[j + 3]
             IN /\ 2 * m + 2 <= Len(CalledWith)
                /\ last.fx[j] = Link(A, B)
                /\ last.fx[j + 1] = Link(B, A)
                /\ toA.k # "throw" =>
                     /\ toA.k = "send" /\ toA.type = "matched" /\ toA.id = A
                     /\ toA.peer = B /\ toA.role = "caller"
                     /\ toB.k # "throw" =>
                          /\ toB.k = "send" /\ toB.type = "matched" /\ toB.id = B
                          /\ toB.peer = A /\ toB.role = ""
        /\ last.op = "return" => Cardinality(PairIdx) = Len(CalledWith) \div 2

\* four valid ids were waiting: 1-2 were linked and notified, then 3-4
C11_Witness ==
    /\ last.op = "return"
    /\ Len(CalledWith) >= 4
    /\ AllValidAtCall
    /\ Thrown = {}
    /\ \E i, j \in PairIdx :
         /\ i < j
         /\ last.fx[i] = Link(1, 2)
         /\ last.fx[j] = Link(3, 4)
         /\ last.fx[j + 2] = SendMatched(3, 4, "caller")
         /\ last.fx[j + 3] = SendMatched(4, 3, "")

\* C12: a loop iteration links the two ids it popped only if both are
\* registered and neither holds a link; when exactly one of them fails that
\* test the iteration links nobody, drops the failing id and leaves the queue
\* as the ids that were behind the two followed by the valid one; when both
\* fail, both are dropped.
C12_LinksOnlyValidPushesValidToTail ==
    [][ last'.op \in {"iteration", "await"} =>
          LET userA == waitingQueue[1]
              userB == waitingQueue[2]
              rest == SubSeq(waitingQueue, 3, Len(waitingQueue))
              okA == userA \in userSockets /\ currentPartner[userA] = None
              okB == userB \in userSockets /\ currentPartner[userB] = None
              new == SubSeq(last'.fx, Len(last.fx) + 1, Len(last'.fx))
              linking == \E i \in 1..Len(new) : new[i].k = "link"
          IN /\ linking => (okA /\ okB)
             /\ \A i \in 1..Len(new) :
                  new[i].k = "link" => {new[i].id, new[i].peer} = {userA, userB}
             /\ ~(okA /\ okB) =>
                  /\ ~linking
                  /\ currentPartner' = currentPartner
                  /\ waitingQueue' = rest \o (IF okA THEN <<userA>> ELSE <<>>)
                                          \o (IF okB THEN <<userB>> ELSE <<>>)
      ]_vars

\* a valid id popped with an invalid one went behind an id that was waiting
C12_Witness ==
    \E j \in FxIdx :
        /\ last.fx[j].k = "push"
        /\ last.fx[j].type = "invalid"
        /\ Len(last.fx[j].q) >= 2
        /\ last.fx[j].q[Len(last.fx[j].q)] = last.fx[j].id
        /\ Cardinality({i \in FxIdx : last.fx[i].k = "push"}) = 1

\* what is left for the loop to do: the ids waiting, the valid ones counted twice
Rank ==
    Len(waitingQueue)
    + Cardinality({i \in 1..Len(waitingQueue) :
                     /\ waitingQueue[i] \in userSockets
                     /\ currentPartner[waitingQueue[i]] = None})

\* C19: the pass returns, whatever the queue holds and however often a send
\* throws: every loop iteration, the catch branch included, leaves strictly
\* less to do (fewer ids waiting, or as many of which fewer can be paired);
\* and when the pass has returned fewer than two ids are waiting and no
\* continuation is pending.
C19_PassTerminatesDrained ==
    /\ [][last'.op \in {"iteration", "await"} => Rank' < Rank]_vars
    /\ <>(last.op = "return")
    /\ [](last.op = "return" => (Len(waitingQueue) < 2 /\ passes = 0))

\* a pass over four ids, one of them unregistered, returned after a send threw
C19_Witness ==
    /\ last.op = "return"
    /\ Len(CalledWith) >= 4
    /\ Thrown # {}
    /\ \E i \in 1..Len(CalledWith) : CalledWith[i] \notin userSockets
    /\ \E i \in 1..Len(CalledWith) : CalledWith[i] \in userSockets /\ ~ValidAtCall(CalledWith[i])

\* ------------------------------------------------ claims on the messages
Delivered == {i \in FxIdx : last.fx[i].k = "relay"}

\* C13: what a relay handler (offer, answer, candidate, networkQualityUpdate)
\* delivers to a registered destination is the inbound message with from set
\* to the sender's id, whatever from the client wrote, and nothing else changed.
C13_DeliveredCarriesTrueSender ==
    last.op \in {"relay", "quality"} =>
        /\ last.msg.to \in userSockets => (last.threw \/ Cardinality(Delivered) = 1)
        /\ \A i \in Delivered :
             /\ last.fx[i].id = last.msg.to
             /\ last.fx[i].msg = [last.msg EXCEPT !.from = last.id]

\* C14: a relay message for a destination that is not registered (or names
\* none) delivers nothing and leaves registry, queue and partner table as they
\* were; and no relay message changes any of the three.
C14_RelayChangesNothing ==
    [][ last'.op \in {"relay", "quality"} =>
          /\ userSockets' = userSockets
          /\ waitingQueue' = waitingQueue
          /\ currentPartner' = currentPartner
          /\ last'.msg.to \notin userSockets => last'.fx = <<>>
      ]_vars

\* C15: a frame that is not JSON, or whose JSON has no type the handler knows,
\* leaves registry, queue and partner table as they were: the sender stays
\* registered and keeps its place.
C15_BadFrameChangesNothing ==
    [][ last'.op = "unhandled" =>
          /\ last'.id \in userSockets'
          /\ userSockets' = userSockets
          /\ waitingQueue' = waitingQueue
          /\ currentPartner' = currentPartner
      ]_vars

\* ------------------------------------------------ claims on the keepalive
Terminated(fx) == {fx[i].id : i \in {j \in 1..Len(fx) : fx[j].k = "terminate"}}
Pinged(fx) == {fx[i].id : i \in {j \in 1..Len(fx) : fx[j].k = "ping"}}

\* C16: a socket's flag is cleared only by a sweep that pings it, and set
\* again only by its own pong (or set at its connection); a sweep terminates
\* exactly the sockets whose flag is still cleared (probed by an earlier sweep,
\* no pong since) and pings, without terminating, every socket whose flag is
\* set; and a terminated socket stays registered until its close handler has
\* run, which leaves it out of registry, queue and partner table, its partner
\* notified and unlinked.
C16_SweepEvictsSilentKeepsAnswering ==
    /\ [][ \A x \in Ids :
             /\ (x \in isAlive /\ x \in userSockets' /\ x \notin isAlive') =>
                    (last'.op = "sweep" /\ x \in Pinged(last'.fx))
             /\ (x \notin isAlive /\ x \in isAlive') =>
                    (last'.op \in {"pong", "connect"} /\ last'.id = x)
         ]_vars
    /\ [][ last'.op = "sweep" =>
             /\ Terminated(last'.fx) = userSockets \ isAlive
             /\ Pinged(last'.fx) = isAlive
             /\ terminated' = terminated \cup (userSockets \ isAlive)
             /\ userSockets' = userSockets
             /\ waitingQueue' = waitingQueue
             /\ currentPartner' = currentPartner
         ]_vars
    /\ [][ \A x \in terminated :
             x \notin terminated' =>
                /\ last'.op = "close" /\ last'.id = x
                /\ x \notin userSockets'
                /\ ~includes(waitingQueue', x)
                /\ currentPartner'[x] = None
                /\ \A b \in Ids : currentPartner'[b] # x
                /\ last'.peer = currentPartner[x]
                /\ (last'.peer # None /\ last'.peer \in userSockets) =>
                       last'.fx[1] = SendHangup(last'.peer)
         ]_vars
    /\ [](terminated \subseteq userSockets)

\* a sweep ended a paired connection that had not answered the last probe and
\* pinged another one that had
C16_Witness ==
    /\ last.op = "sweep"
    /\ \E x \in Terminated(last.fx) :
         /\ currentPartner[x] # None
         /\ currentPartner[x] \in Pinged(last.fx)
         /\ x \in terminated

\* ------------------------------------------------ claims on idle ids
\* registered, not waiting, not paired
Idle(a) ==
    /\ a \in userSockets
    /\ ~InQueue(a)
    /\ currentPartner[a] = None

\* C17: no id stays idle for ever: with timers firing and continuations
\* resumed, and whether or not the client sends anything more, every id is
\* again and again queued, paired or gone.
C17_IdleIsTransient ==
    \A a \in Ids : []<>(~Idle(a))

\* ------------------------------------------------ claims on no-op teardowns
\* C18: a hangup from an id without partner sends nothing, arms no timer and
\* leaves registry, queue and partner table as they were; so does a skip from
\* an id without partner that is already waiting.
C18_UnpairedTeardownIsNoOp ==
    [][ (/\ last'.peer = None
         /\ \/ last'.op = "hangup"
            \/ last'.op = "skip" /\ InQueue(last'.id)) =>
          /\ last'.fx = <<>>
          /\ userSockets' = userSockets
          /\ waitingQueue' = waitingQueue
          /\ currentPartner' = currentPartner
          /\ timers' = timers
      ]_vars

\* an id that waits alone sent skip, or an idle id sent hangup: nothing happened
C18_Witness ==
    /\ last.peer = None
    /\ last.fx = <<>>
    /\ \/ last.op = "skip" /\ waitingQueue = <<last.id>>
       \/ last.op = "hangup" /\ Idle(last.id)

\* ------------------------------------------------ claims on re-entrancy
\* every waiting id is registered and holds no link
QueueSound ==
    \A i \in 1..Len(waitingQueue) :
        /\ waitingQueue[i] \in userSockets
        /\ currentPartner[waitingQueue[i]] = None

\* C20: whatever handler runs while a tryMatch is suspended at its await (a
\* connection, a skip, a timer callback starting a second pass; a hangup or a
\* disconnect; the continuation itself), it links no id that holds a link at
\* that moment, and every id it takes out of the queue is linked by it, or was
\* unregistered or already paired, or is the id being disconnected; the
\* queue stays free of duplicates and the partner table symmetric, also when
\* every pass has finished; and such a handler leaves only registered,
\* unlinked ids waiting if it found only such (the timer callback apart, which
\* pushes its id unchecked whether or not a pass is suspended: C3, C4).
C20_SuspendedPassIsReentrantSafe ==
    /\ [][ passes > 0 =>
             LET fx == last'.fx
             IN /\ \A i \in 1..Len(fx) :
                     fx[i].k = "link" =>
                        /\ \/ currentPartner[fx[i].id] = None
                           \/ \E j \in 1..(i - 1) : fx[j] = Unlink(fx[i].id)
                        /\ ~\E j \in 1..(i - 1) : fx[j].k = "link" /\ fx[j].id = fx[i].id
                /\ \A x \in Ids :
                     (InQueue(x) /\ ~includes(waitingQueue', x)) =>
                        \/ \E i \in 1..Len(fx) : fx[i].k = "link" /\ fx[i].id = x
                        \/ x \notin userSockets
                        \/ currentPartner[x] # None
                        \/ last'.op = "close" /\ last'.id = x
         ]_vars
    /\ [][ (passes > 0 /\ QueueSound /\ last'.op # "timer") => QueueSound' ]_vars
    /\ [](/\ NoDup(waitingQueue)
          /\ \A a, b \in Ids : currentPartner[a] = b => currentPartner[b] = a
          /\ \A a \in Ids : currentPartner[a] # a)

\* a second pass linked a pair and suspended while the first was still suspended
C20_Witness ==
    /\ passes >= 2
    /\ last.op \in {"connect", "skip", "timer"}
    /\ \E i \in FxIdx : last.fx[i].k = "link"

\* ------------------------------------------------ claims on quiescence
\* the ids that wait, are registered and hold no link
WaitingValid ==
    {x \in Ids : InQueue(x) /\ x \in userSockets /\ currentPartner[x] = None}

\* C21: when no tryMatch is suspended (every pass that was started has
\* returned), at most one id is in the waiting queue, and so no two
\* registered, unlinked ids are left waiting together.
C21_AtMostOneWaitsAtQuiescence ==
    passes = 0 =>
        /\ Len(waitingQueue) <= 1
        /\ Cardinality(WaitingValid) <= 1

\* every pass has returned after a handler pushed a second id behind a waiting
\* one, and one valid id is left waiting
C21_Witness ==
    /\ passes = 0
    /\ Cardinality(WaitingValid) = 1
    /\ \E i \in FxIdx : last.fx[i].k = "push" /\ Len(last.fx[i].q) >= 2

====
